---- MODULE Spec2Model ----
(***************************************************************************)
(* Model of app.py, the Sahayaka Mitra farmer portal backend: the module   *)
(* level start-up (credential, schemes knowledge base, farmer dataset) and *)
(* the request handlers /health, /get_farmer_data and /chat.               *)
(*                                                                         *)
(* Python values are records tagged with their type in the field py.       *)
(* Strings are sequences of one-character strings, so that the regular     *)
(* expression substitution and str.lower() are computed, not assumed.      *)
(***************************************************************************)
EXTENDS Integers, Sequences, FiniteSets, TLC

VARIABLES api_key, knowledge_base, knowledge_base_string, farmer_df,
          inflight, last, startup

vars == <<api_key, knowledge_base, knowledge_base_string, farmer_df,
          inflight, last, startup>>

module_state == <<api_key, knowledge_base, knowledge_base_string, farmer_df>>

(***************************************************************************)
(* Bounds of the model.                                                    *)
(***************************************************************************)
\* Largest number of data rows of enriched_soil.csv.
MaxRows == 2
\* Largest number of /chat requests blocked in generate_content at once.
MaxInflight == 1

(***************************************************************************)
(* Python values.                                                          *)
(***************************************************************************)
None == [py |-> "NoneType"]

PyStr(s) == [py |-> "str", s |-> s]

PyInt(n) == [py |-> "int", n |-> n]

\* float('nan'): what pandas stores for a missing cell.
NaN == [py |-> "float", nan |-> TRUE]

PyList == [py |-> "list"]

\* A dict; items is a function from keys to values.
PyDict(items) == [py |-> "dict", items |-> items]

EmptyItems == [k \in {} |-> None]

\* `v is not None`
TruthyIsNotNone(v) == v # None

\* bool(v), as used by `if not v`.
Truthy(v) ==
    CASE v.py = "NoneType" -> FALSE
      [] v.py = "str" -> v.s # <<>>
      [] v.py = "int" -> v.n # 0
      [] v.py = "float" -> TRUE
      [] v.py = "list" -> FALSE
      [] v.py = "dict" -> DOMAIN v.items # {}
      [] OTHER -> TRUE

\* d.get(key): None when the key is missing.
DictGet(d, key) == IF key \in DOMAIN d.items THEN d.items[key] ELSE None

DigitChars == <<"0", "1", "2", "3", "4", "5", "6", "7", "8", "9">>

RECURSIVE IntToStr(_)
IntToStr(n) ==
    IF n < 10 THEN <<DigitChars[n + 1]>>
    ELSE IntToStr(n \div 10) \o <<DigitChars[(n % 10) + 1]>>

\* str(v); pandas' astype(str) gives the same text for these values.
ToStr(v) ==
    CASE v.py = "str" -> v.s
      [] v.py = "int" -> IntToStr(v.n)
      [] v.py = "float" -> <<"n", "a", "n">>
      [] v.py = "NoneType" -> <<"N", "o", "n", "e">>
      [] OTHER -> <<>>

(***************************************************************************)
(* Normalisation: re.sub(r'[^a-zA-Z0-9]', '', s).lower()                   *)
(***************************************************************************)
UpperLetters ==
    <<"A", "B", "C", "D", "E", "F", "G", "H", "I", "J", "K", "L", "M",
      "N", "O", "P", "Q", "R", "S", "T", "U", "V", "W", "X", "Y", "Z">>

LowerLetters ==
    <<"a", "b", "c", "d", "e", "f", "g", "h", "i", "j", "k", "l", "m",
      "n", "o", "p", "q", "r", "s", "t", "u", "v", "w", "x", "y", "z">>

Range(f) == {f[i] : i \in DOMAIN f}


\* The character class [a-zA-Z0-9], over the characters of the model.
IsAlnum(c) == c \in Range(LowerLetters) \cup Range(UpperLetters) \cup Range(DigitChars)

\* str.lower() on one character.
LowerChar(c) ==
    IF c \in Range(UpperLetters)
    THEN LowerLetters[CHOOSE i \in DOMAIN UpperLetters : UpperLetters[i] = c]
    ELSE c

RECURSIVE StripNonAlnum(_)
StripNonAlnum(s) ==
    IF s = <<>> THEN <<>>
    ELSE IF IsAlnum(Head(s)) THEN <<Head(s)>> \o StripNonAlnum(Tail(s))
    ELSE StripNonAlnum(Tail(s))

StrLower(s) == [i \in DOMAIN s |-> LowerChar(s[i])]

\* The load-time key of a cell (line 40).
CleanedRtc(cell) == StrLower(StripNonAlnum(ToStr(cell)))

CleanedRtcInputNoLower(rtc_number) == StripNonAlnum(ToStr(rtc_number))

\* The query-time key (line 102).
CleanedRtcInput(rtc_number) == StrLower(StripNonAlnum(ToStr(rtc_number)))

(***************************************************************************)
(* Start-up inputs: the environment and the two files.                     *)
(***************************************************************************)
\* GEMINI_API_KEY: unset, set to the empty string, or set to a key.
Environments == {None, PyStr(<<>>), PyStr(<<"k">>)}

\* os.getenv("GEMINI_API_KEY") (line 17).
GetEnv(env) == env

\* schemes_data.json: missing, not JSON, the JSON document null, or an object.
SchemesFiles ==
    { [exists |-> FALSE],
      [exists |-> TRUE, valid |-> FALSE],
      [exists |-> TRUE, valid |-> TRUE, doc |-> None],
      [exists |-> TRUE, valid |-> TRUE, doc |-> PyDict(EmptyItems)] }

\* json.dumps(doc, indent=2): never the empty string.
JsonDumps(doc) ==
    IF doc = None THEN <<"n", "u", "l", "l">> ELSE <<"{", "}">>

\* Lines 24-32: both names keep their defaults when open/json.load raises.
LoadKnowledgeBase(file) ==
    IF file.exists /\ file.valid
    THEN [knowledge_base |-> file.doc,
          knowledge_base_string |-> PyStr(JsonDumps(file.doc))]
    ELSE [knowledge_base |-> None, knowledge_base_string |-> PyStr(<<>>)]

SeqsUpTo(S, n) == UNION {[1..k -> S] : k \in 0..n}

\* Text cells of the rtc_number column: A, a, a-, - and A-1.  read_csv turns
\* an empty cell into NaN, so no text cell is empty.
StringCells ==
    {PyStr(<<"A">>), PyStr(<<"a">>), PyStr(<<"a", "-">>), PyStr(<<"-">>),
     PyStr(<<"A", "-", "1">>)}

\* An object column holds text and NaN, an int64 column holds integers.
ObjectCells == StringCells \cup {NaN}

IntCells == {PyInt(0), PyInt(1)}

\* A table whose rtc_number column holds the given cells.  The other columns
\* of a row are payload; the model keeps one, plot_id, holding the line number
\* of the row, so that two rows with the same rtc_number still differ.
Table(cells) ==
    [i \in DOMAIN cells |-> ("rtc_number" :> cells[i]) @@ ("plot_id" :> PyInt(i))]

CsvFile(columns, rows) == [exists |-> TRUE, columns |-> columns, rows |-> rows]

\* enriched_soil.csv: missing, without the rtc_number column, or a table.
FarmerFiles ==
    { [exists |-> FALSE] }
    \cup { CsvFile({"plot_id"}, <<("plot_id" :> PyInt(1))>>) }
    \cup { CsvFile({"rtc_number", "plot_id"}, Table(cells)) :
              cells \in SeqsUpTo(ObjectCells, MaxRows) \cup SeqsUpTo(IntCells, MaxRows) }

DataFrame(rows) == [py |-> "DataFrame", rows |-> rows]

\* Line 40: the cleaned_rtc column.
WithCleanedRtc(rows) ==
    [i \in DOMAIN rows |->
        rows[i] @@ ("cleaned_rtc" :> PyStr(CleanedRtc(rows[i]["rtc_number"])))]

\* Lines 34-45.
LoadFarmerData(file) ==
    IF ~file.exists THEN None
    ELSE IF "rtc_number" \notin file.columns THEN None
    ELSE DataFrame(WithCleanedRtc(file.rows))

NoRequest == [route |-> "none"]

Init ==
    /\ api_key \in {GetEnv(e) : e \in Environments}
    /\ \E file \in SchemesFiles :
          /\ knowledge_base = LoadKnowledgeBase(file).knowledge_base
          /\ knowledge_base_string = LoadKnowledgeBase(file).knowledge_base_string
    /\ farmer_df \in {LoadFarmerData(file) : file \in FarmerFiles}
    /\ inflight = <<>>
    /\ last = NoRequest
    /\ startup = module_state

(***************************************************************************)
(* Requests and responses.                                                 *)
(***************************************************************************)
\* A request body on the wire: none, not JSON, or a JSON value.
NoBody == [wire |-> "absent"]

InvalidBody == [wire |-> "invalid"]

JsonBody(value) == [wire |-> "json", value |-> value]

\* request.get_json(): the parsed value, or an HTTP error raised by Flask.  A
\* request without a JSON body raises 415 on current Flask and gives None on
\* Flask before 2.1; text that is not JSON raises 400.
GetJson(body) ==
    CASE body.wire = "json" -> {[raised |-> FALSE, value |-> body.value]}
      [] body.wire = "invalid" -> {[raised |-> TRUE, status |-> 400]}
      [] body.wire = "absent" ->
            {[raised |-> TRUE, status |-> 415], [raised |-> FALSE, value |-> None]}

\* return jsonify(payload), status
Jsonify(status, payload) == [status |-> status, is_json |-> TRUE, payload |-> payload]

\* An exception left the view function: Flask answers with its own error page.
Escaped(status) == [status |-> status, is_json |-> FALSE, payload |-> None]

(***************************************************************************)
(* /health (lines 71-78)                                                   *)
(***************************************************************************)
ApiKeyConfigured(key) == key # None

health(kb, df, key) ==
    Jsonify(200, [status |-> "ok",
                  knowledge_base_loaded |-> kb # None,
                  farmer_data_loaded |-> df # None,
                  api_key_configured |-> ApiKeyConfigured(key)])

Health ==
    /\ last' = [route |-> "/health",
                response |-> health(knowledge_base, farmer_df, api_key)]
    /\ UNCHANGED <<api_key, knowledge_base, knowledge_base_string, farmer_df,
                   inflight, startup>>

(***************************************************************************)
(* /get_farmer_data (lines 91-117)                                         *)
(***************************************************************************)
\* farmer_df[farmer_df['cleaned_rtc'] == cleaned_rtc_input]: the matching
\* rows, in storage order.
MatchingRows(df, cleaned_rtc_input) ==
    SelectSeq(df.rows, LAMBDA r : r["cleaned_rtc"] = PyStr(cleaned_rtc_input))

LastRow(result_row) == result_row[Len(result_row)]

\* result_row.iloc[0].to_dict()
FirstRow(result_row) == result_row[1]

\* farmer_data.pop('cleaned_rtc', None)
PopCleanedRtc(farmer_data) ==
    [k \in DOMAIN farmer_data \ {"cleaned_rtc"} |-> farmer_data[k]]

\* Lines 109-113: NaN becomes None; value.item() keeps the value.
ToNative(farmer_data) ==
    [k \in DOMAIN farmer_data |->
        IF farmer_data[k] = NaN THEN None ELSE farmer_data[k]]

\* The frame with the key of the first matching row cleared.
FrameAfterLookupInPlace(df, cleaned_rtc_input) ==
    LET hit == {i \in DOMAIN df.rows :
                    df.rows[i]["cleaned_rtc"] = PyStr(cleaned_rtc_input)}
        first == CHOOSE i \in hit : \A j \in hit : i <= j
    IN  IF hit = {} THEN df
        ELSE DataFrame([df.rows EXCEPT ![first]["cleaned_rtc"] = None])

\* farmer_df after lines 103-107: boolean indexing and to_dict() copy, and
\* pop() acts on the copy, so the frame is the one the handler found.
FrameAfterLookup(df, cleaned_rtc_input) == df

\* `if rtc_number is None`
RtcMissingIsNone(rtc_number) == ~TruthyIsNotNone(rtc_number)

\* `if not rtc_number`
RtcMissing(rtc_number) == ~Truthy(rtc_number)

FarmerOutcome(response, searched, df) ==
    [response |-> response, searched |-> searched, farmer_df |-> df]

\* Lines 97-117, for one result of request.get_json().
get_farmer_data_body(df, json) ==
    IF json.raised THEN FarmerOutcome(Escaped(json.status), FALSE, df)
    ELSE IF json.value.py # "dict"
    THEN \* data.get raises AttributeError
         FarmerOutcome(Escaped(500), FALSE, df)
    ELSE
    LET rtc_number == DictGet(json.value, "rtc") IN
    IF RtcMissing(rtc_number)
    THEN FarmerOutcome(
             Jsonify(400, [success |-> FALSE, error |-> "RTC number is required."]),
             FALSE, df)
    ELSE
    LET cleaned_rtc_input == CleanedRtcInput(rtc_number)
        result_row == MatchingRows(df, cleaned_rtc_input)
    IN  IF result_row # <<>>
        THEN FarmerOutcome(
                 Jsonify(200, [success |-> TRUE,
                               data |-> ToNative(PopCleanedRtc(FirstRow(result_row)))]),
                 TRUE, FrameAfterLookup(df, cleaned_rtc_input))
        ELSE FarmerOutcome(
                 Jsonify(404, [success |-> FALSE,
                               error |-> "Farmer with this RTC number not found."]),
                 TRUE, FrameAfterLookup(df, cleaned_rtc_input))

DataUnavailable ==
    Jsonify(500, [success |-> FALSE,
                  error |-> "Farmer data is not available on the server."])

\* The handler with the body parsed and checked before the dataset.
get_farmer_data_body_first(df, body) ==
    {IF df = None /\ ~json.raised /\ json.value.py = "dict"
                   /\ ~RtcMissing(DictGet(json.value, "rtc"))
     THEN FarmerOutcome(DataUnavailable, FALSE, df)
     ELSE get_farmer_data_body(df, json) : json \in GetJson(body)}

\* The outcomes of one request: the response, whether the table was
\* searched, and farmer_df afterwards.  The elapsed time is not modelled.
get_farmer_data(df, body) ==
    IF df = None
    THEN {FarmerOutcome(DataUnavailable, FALSE, df)}
    ELSE {get_farmer_data_body(df, json) : json \in GetJson(body)}

\* The rtc values of the requests: null, "", the cell texts, a1, NaN, 0 and 1.
RtcInputs ==
    {None, PyStr(<<>>), PyStr(<<"a", "1">>), PyStr(<<"N", "a", "N">>)}
    \cup StringCells \cup IntCells

FarmerBodies ==
    {NoBody, InvalidBody, JsonBody(None), JsonBody(PyList), JsonBody(PyDict(EmptyItems))}
    \cup {JsonBody(PyDict("rtc" :> v)) : v \in RtcInputs}

GetFarmerData ==
    \E body \in FarmerBodies :
        \E out \in get_farmer_data(farmer_df, body) :
            /\ last' = [route |-> "/get_farmer_data", body |-> body,
                        response |-> out.response, searched |-> out.searched]
            /\ farmer_df' = out.farmer_df
            /\ UNCHANGED <<api_key, knowledge_base, knowledge_base_string,
                           inflight, startup>>

(***************************************************************************)
(* /chat (lines 120-145)                                                   *)
(***************************************************************************)
\* `if user_question is None`
MessageMissingIsNone(user_question) == ~TruthyIsNotNone(user_question)

\* `if not user_question`
MessageMissing(user_question) == ~Truthy(user_question)

KnowledgeBaseNeverMissing(kb_string) == FALSE

\* `if not knowledge_base_string`
KnowledgeBaseMissing(kb_string) == ~Truthy(kb_string)

ApiKeyMissingIsEmpty(key) == key = PyStr(<<>>)

\* `if not api_key`
ApiKeyMissing(key) == ~Truthy(key)

\* prompt_template.format(knowledge_base=..., user_question=...): the fixed
\* preamble, the knowledge text and the question, each verbatim.
FormatPrompt(kb_string, user_question) ==
    [preamble |-> "Sahayaka Mitra", knowledge_base |-> kb_string,
     user_question |-> user_question]

Returned(response) == [calling |-> FALSE, response |-> response]

Calling(final_prompt) == [calling |-> TRUE, final_prompt |-> final_prompt]

\* Lines 123-140, for one result of request.get_json(): either a response,
\* or the prompt handed to model.generate_content.
chat_before_call(kb_string, key, json) ==
    IF json.raised THEN Returned(Escaped(json.status))
    ELSE IF json.value.py # "dict"
    THEN \* data.get raises AttributeError
         Returned(Escaped(500))
    ELSE
    LET user_question == DictGet(json.value, "message") IN
    IF MessageMissing(user_question)
    THEN Returned(Jsonify(400, [success |-> FALSE,
                                reply |-> "Invalid request. Please provide a message."]))
    ELSE IF KnowledgeBaseMissing(kb_string)
    THEN Returned(Jsonify(500,
             [success |-> FALSE,
              reply |-> "Knowledge base not loaded. Please contact administrator."]))
    ELSE IF ApiKeyMissing(key)
    THEN Returned(Jsonify(500,
             [success |-> FALSE,
              reply |-> "Chatbot API is not configured. Please contact administrator."]))
    ELSE Calling(FormatPrompt(kb_string, user_question))

chat(kb_string, key, body) ==
    {chat_before_call(kb_string, key, json) : json \in GetJson(body)}

\* What the completion service does with a prompt: it answers, or
\* generate_content or response.text raises.
CompletionResults == {[ok |-> TRUE, text |-> "answer"], [ok |-> FALSE]}

\* Lines 141-145.
chat_after_call(result) ==
    IF result.ok
    THEN Jsonify(200, [success |-> TRUE, reply |-> result.text])
    ELSE Jsonify(500, [success |-> FALSE,
                       reply |-> "Sorry, I encountered an error. Please try again later."])

MessageInputs == {None, PyStr(<<>>), PyStr(<<"h", "i">>)}

ChatBodies ==
    {NoBody, InvalidBody, JsonBody(None), JsonBody(PyList), JsonBody(PyDict(EmptyItems))}
    \cup {JsonBody(PyDict("message" :> v)) : v \in MessageInputs}

RemoveAt(seq, i) == SubSeq(seq, 1, i - 1) \o SubSeq(seq, i + 1, Len(seq))

\* A /chat request up to its return or up to the blocking completion call.
Chat ==
    \E body \in ChatBodies :
        \E out \in chat(knowledge_base_string, api_key, body) :
            /\ IF out.calling
               THEN /\ Len(inflight) < MaxInflight
                    /\ inflight' = Append(inflight,
                                          [body |-> body, final_prompt |-> out.final_prompt])
                    /\ last' = [route |-> "/chat", body |-> body, returned |-> FALSE,
                                composed |-> TRUE, called |-> TRUE]
               ELSE /\ inflight' = inflight
                    /\ last' = [route |-> "/chat", body |-> body, returned |-> TRUE,
                                response |-> out.response,
                                composed |-> FALSE, called |-> FALSE]
            /\ UNCHANGED <<module_state, startup>>

\* A blocked /chat request gets the service's result and returns.
ChatReturn ==
    \E i \in DOMAIN inflight :
        \E result \in CompletionResults :
            /\ inflight' = RemoveAt(inflight, i)
            /\ last' = [route |-> "/chat", body |-> inflight[i].body, returned |-> TRUE,
                        response |-> chat_after_call(result),
                        composed |-> TRUE, called |-> TRUE]
            /\ UNCHANGED <<module_state, startup>>

Next == Health \/ GetFarmerData \/ Chat \/ ChatReturn

Spec == Init /\ [][Next]_vars

(***************************************************************************)
(* Properties.                                                             *)
(***************************************************************************)
FarmerRequest == last.route = "/get_farmer_data"

ChatRequest == last.route = "/chat"

\* The request carried a JSON object.
ObjectBody == last.body.wire = "json" /\ last.body.value.py = "dict"

RequestField(name) == DictGet(last.body.value, name)

\* A field that is missing, null or the empty string.
EmptyOrAbsent(v) == v = None \/ v = PyStr(<<>>)

\* A field a Python `if not` lets through: not missing, null, "" or 0.
NonEmpty(v) == ~EmptyOrAbsent(v) /\ v # PyInt(0)

\* The rtc_number of a stored row as a client holds it: a missing cell is null.
OriginalRtc(row) == IF row["rtc_number"] = NaN THEN None ELSE row["rtc_number"]

\* The fields of a stored row as JSON, without the internal key.
RowFields(row) ==
    [k \in DOMAIN row \ {"cleaned_rtc"} |-> IF row[k] = NaN THEN None ELSE row[k]]

\* The rows of the loaded table whose key equals the key of row i.
SameKey(i) ==
    {j \in DOMAIN farmer_df.rows :
        farmer_df.rows[j]["cleaned_rtc"] = farmer_df.rows[i]["cleaned_rtc"]}

Min(S) == CHOOSE i \in S : \A j \in S : i <= j

\* The last request asked for the original rtc_number of stored row i.
AskedForRow(i) ==
    /\ FarmerRequest /\ farmer_df # None /\ ObjectBody
    /\ "rtc" \in DOMAIN last.body.value.items
    /\ i \in DOMAIN farmer_df.rows
    /\ RequestField("rtc") = OriginalRtc(farmer_df.rows[i])

\* C1 as claimed: looking up the original rtc_number of any loaded row
\* answers 200 with the fields of that very row, without cleaned_rtc.
C1_LookupTotal ==
    \A i \in 1..MaxRows :
        AskedForRow(i) =>
            /\ last.response.status = 200
            /\ last.response.payload.data = RowFields(farmer_df.rows[i])

\* C1 amended: looking up the original rtc_number of a loaded row, when that
\* value is not a missing cell and not the number 0, answers 200 with the
\* fields, without cleaned_rtc, of the first row in storage order that has
\* the same normalized key.
C1_LookupFirstOfKey ==
    \A i \in 1..MaxRows :
        (AskedForRow(i) /\ NonEmpty(RequestField("rtc"))) =>
            /\ last.response.status = 200
            /\ last.response.is_json
            /\ last.response.payload.success = TRUE
            /\ last.response.payload.data = RowFields(farmer_df.rows[Min(SameKey(i))])
            /\ "cleaned_rtc" \notin DOMAIN last.response.payload.data

\* The answer to a lookup of the second of two rows with one key is the first.
C1_Witness ==
    /\ AskedForRow(2)
    /\ farmer_df.rows[1]["cleaned_rtc"] = farmer_df.rows[2]["cleaned_rtc"]
    /\ farmer_df.rows[1]["rtc_number"] # farmer_df.rows[2]["rtc_number"]
    /\ last.response.status = 200
    /\ last.response.payload.data = RowFields(farmer_df.rows[1])

\* The rows whose rtc_number, normalized as at load time, equals the
\* request's rtc normalized the same way.
RowsMatching(rtc) ==
    {i \in DOMAIN farmer_df.rows :
        CleanedRtc(farmer_df.rows[i]["rtc_number"]) = CleanedRtc(rtc)}

\* C2: with the dataset loaded and a non-empty rtc, the answer is 200 exactly
\* when some row's normalized key equals the normalized query and 404
\* otherwise; on 200 the data is the first such row in storage order, without
\* the cleaned_rtc field.
C2_MatchPolicy ==
    (FarmerRequest /\ farmer_df # None /\ ObjectBody /\ NonEmpty(RequestField("rtc"))) =>
        LET hit == RowsMatching(RequestField("rtc")) IN
        /\ last.response.is_json
        /\ last.response.status \in {200, 404}
        /\ last.response.status = 200 <=> hit # {}
        /\ last.response.status = 200 =>
              /\ last.response.payload.data = RowFields(farmer_df.rows[Min(hit)])
              /\ "cleaned_rtc" \notin DOMAIN last.response.payload.data

\* The query a1 finds the row A-1, the first of two rows with that key.
C2_Witness ==
    /\ FarmerRequest /\ farmer_df # None /\ ObjectBody
    /\ RequestField("rtc") = PyStr(<<"a", "1">>)
    /\ Cardinality(RowsMatching(RequestField("rtc"))) = 2
    /\ last.response.status = 200
    /\ last.response.payload.data["rtc_number"] = PyStr(<<"A", "-", "1">>)
    /\ last.response.payload.data["plot_id"] = PyInt(1)

\* C3 as claimed: a lookup whose rtc is empty or absent is refused with 400
\* before the table is searched, in every start-up state.
C3_MissingInputAlways ==
    (FarmerRequest /\ ObjectBody /\ EmptyOrAbsent(RequestField("rtc"))) =>
        /\ last.response.status = 400
        /\ ~last.searched

\* C3 amended: with the dataset loaded, a lookup whose rtc is empty or absent
\* is refused with 400 before the table is searched.
C3_MissingInputWhenLoaded ==
    (FarmerRequest /\ farmer_df # None /\ ObjectBody
        /\ EmptyOrAbsent(RequestField("rtc"))) =>
        /\ last.response.status = 400
        /\ last.response.is_json
        /\ last.response.payload.success = FALSE
        /\ ~last.searched

\* The body {} against a loaded, non-empty table.
C3_Witness ==
    /\ FarmerRequest /\ farmer_df # None /\ farmer_df.rows # <<>>
    /\ last.body = JsonBody(PyDict(EmptyItems))
    /\ last.response.status = 400

\* C4: when the dataset failed to load, every lookup request, whatever its
\* body, answers 500 DataUnavailable and searches nothing.
C4_DataUnavailable ==
    (FarmerRequest /\ farmer_df = None) =>
        /\ last.response.status = 500
        /\ last.response.is_json
        /\ last.response.payload.success = FALSE
        /\ last.response.payload.error = "Farmer data is not available on the server."
        /\ ~last.searched

\* A request without an rtc, and without a JSON body at all, gets the 500.
C4_Witness ==
    /\ FarmerRequest /\ farmer_df = None
    /\ last.body = NoBody
    /\ last.response.status = 500

\* C5: a chat request whose message is empty or missing answers 400 and does
\* not call the completion service, in every start-up state.
C5_EmptyMessage ==
    (ChatRequest /\ ObjectBody /\ EmptyOrAbsent(RequestField("message"))) =>
        /\ last.returned
        /\ last.response.status = 400
        /\ last.response.is_json
        /\ ~last.called

\* An empty message when the knowledge base and the credential are in place.
C5_Witness ==
    /\ ChatRequest /\ ObjectBody
    /\ RequestField("message") = PyStr(<<>>)
    /\ knowledge_base # None /\ api_key = PyStr(<<"k">>)
    /\ last.response.status = 400

\* The knowledge base failed to load: both names kept their defaults.
KnowledgeBaseFailed == knowledge_base = None /\ knowledge_base_string = PyStr(<<>>)

\* C6 as claimed: when the knowledge base failed to load, every chat request
\* answers 500 and no completion call is attempted.
C6_EveryChat500 ==
    (ChatRequest /\ KnowledgeBaseFailed) =>
        /\ last.returned
        /\ last.response.status = 500
        /\ ~last.called

\* C6 amended: when the knowledge base failed to load, no chat request
\* attempts a completion call, and a chat request with a non-empty message
\* answers 500.
C6_Chat500WithMessage ==
    KnowledgeBaseFailed =>
        /\ inflight = <<>>
        /\ ChatRequest => (last.returned /\ ~last.called /\ ~last.composed)
        /\ (ChatRequest /\ ObjectBody /\ NonEmpty(RequestField("message"))) =>
              /\ last.response.status = 500
              /\ last.response.is_json
              /\ last.response.payload.reply =
                    "Knowledge base not loaded. Please contact administrator."

\* A question put while the credential is configured but the schemes are not.
C6_Witness ==
    /\ ChatRequest /\ KnowledgeBaseFailed /\ ObjectBody
    /\ api_key = PyStr(<<"k">>)
    /\ RequestField("message") = PyStr(<<"h", "i">>)
    /\ last.response.status = 500

\* C7: /health answers 200 and each flag agrees with what the handlers gate
\* on: knowledge_base_loaded with /chat's knowledge base check,
\* api_key_configured with /chat's credential check, farmer_data_loaded with
\* /get_farmer_data's dataset check.
C7_HealthAgrees ==
    last.route = "/health" =>
        /\ last.response.status = 200
        /\ last.response.payload.knowledge_base_loaded = Truthy(knowledge_base_string)
        /\ last.response.payload.api_key_configured = Truthy(api_key)
        /\ last.response.payload.farmer_data_loaded = (farmer_df # None)

\* C8: every POST to /get_farmer_data or /chat ends in a JSON body carrying
\* a success boolean; no exception leaves a handler.
C8_AlwaysJson ==
    ((FarmerRequest \/ ChatRequest) /\ (ChatRequest => last.returned)) =>
        /\ last.response.is_json
        /\ last.response.payload.success \in BOOLEAN

\* C9: without a credential no chat request reaches the completion service,
\* and a question put with the knowledge base loaded answers 500 without a
\* prompt being composed.
C9_NotConfigured ==
    api_key = None =>
        /\ inflight = <<>>
        /\ ChatRequest => (last.returned /\ ~last.called /\ ~last.composed)
        /\ (ChatRequest /\ ObjectBody /\ NonEmpty(RequestField("message"))
              /\ Truthy(knowledge_base_string)) =>
              /\ last.response.status = 500
              /\ last.response.is_json
              /\ last.response.payload.reply =
                    "Chatbot API is not configured. Please contact administrator."

\* A question put with the schemes loaded and GEMINI_API_KEY unset.
C9_Witness ==
    /\ ChatRequest /\ api_key = None /\ knowledge_base # None /\ ObjectBody
    /\ RequestField("message") = PyStr(<<"h", "i">>)
    /\ last.response.status = 500

\* C10: after any sequence or interleaving of requests the start-up state is
\* the one the process started with, and the answer to a lookup is the one
\* the start-up state gives for that request.
C10_StartupUnchanged ==
    /\ module_state = startup
    /\ FarmerRequest =>
          \E out \in get_farmer_data(startup[4], last.body) :
              /\ last.response = out.response
              /\ last.searched = out.searched

\* A successful lookup answered while a chat request waits for the service.
C10_Witness ==
    /\ FarmerRequest /\ farmer_df # None
    /\ last.response.status = 200
    /\ inflight # <<>>

====
